---- MODULE Spec2Model ----
(***************************************************************************)
(* Model of src/main.py: the citation checker's main() loop, the           *)
(* CitationVerifier (DBLP first, OpenAlex as fallback) and the status      *)
(* classification, together with the two report files it writes.           *)
(*                                                                         *)
(* Python strings are sequences of one-character strings.  JSON values     *)
(* that the code reads with .get() are tagged records, so that a missing   *)
(* field, a null and a string stay different things.                       *)
(***************************************************************************)
EXTENDS Integers, Sequences, FiniteSets, TLC

(***************************************************************************)
(* Bounds of the model.                                                    *)
(***************************************************************************)
MaxKeys == 2
MaxRuns == 2

(***************************************************************************)
(* Program constants.                                                      *)
(***************************************************************************)
SIMILARITY_THRESHOLD == 90
API_DELAY == 1
PREFILTER_THRESHOLD == 70
AUTHOR_THRESHOLD == 80

Max(a, b) == IF a >= b THEN a ELSE b

(***************************************************************************)
(* str.lower() on the characters the model uses.                           *)
(***************************************************************************)
LowerChar(c) ==
    CASE c = "A" -> "a"
      [] c = "B" -> "b"
      [] c = "C" -> "c"
      [] c = "D" -> "d"
      [] c = "X" -> "x"
      [] c = "Y" -> "y"
      [] OTHER -> c

lower(s) == [i \in 1..Len(s) |-> LowerChar(s[i])]

(***************************************************************************)
(* rapidfuzz.fuzz.ratio: the normalised Indel similarity                   *)
(*   100 * (1 - (len1 + len2 - 2*LCS) / (len1 + len2)) = 200*LCS/(len1+len2)*)
(* and 100 for two empty strings.  The score is kept as an exact fraction  *)
(* num/den; the longest common subsequence is computed row by row.         *)
(***************************************************************************)
RECURSIVE LcsRowFrom(_, _, _, _)
LcsRowFrom(prev, c, t, cur) ==
    IF Len(cur) = Len(t) + 1 THEN cur
    ELSE LET j == Len(cur)
         IN  LcsRowFrom(prev, c, t,
                 Append(cur, IF c = t[j] THEN prev[j] + 1
                             ELSE Max(prev[j + 1], cur[j])))

RECURSIVE LcsRows(_, _, _, _)
LcsRows(s, t, i, prev) ==
    IF i > Len(s) THEN prev[Len(t) + 1]
    ELSE LcsRows(s, t, i + 1, LcsRowFrom(prev, s[i], t, <<0>>))

LCS(s, t) == LcsRows(s, t, 1, [j \in 1..(Len(t) + 1) |-> 0])

ratio(s1, s2) ==
    IF Len(s1) + Len(s2) = 0 THEN [num |-> 100, den |-> 1]
    ELSE [num |-> 200 * LCS(s1, s2), den |-> Len(s1) + Len(s2)]

\* score < n, score >= n, score > n on exact fractions
ScoreLess(score, n) == score.num < n * score.den
ScoreGreater(score, n) == score.num > n * score.den
ScoreMax(a, b) == IF a.num * b.den >= b.num * a.den THEN a ELSE b

(***************************************************************************)
(* rapidfuzz.fuzz.partial_ratio: the best ratio of the shorter string      *)
(* against the windows of the longer one (the proper prefixes shorter than *)
(* the needle, every window of the needle's length, the shorter suffixes); *)
(* for equal lengths both directions are tried.                            *)
(***************************************************************************)
Windows(len1, s2) ==
    {SubSeq(s2, 1, i) : i \in 1..(len1 - 1)} \cup
    {SubSeq(s2, i, i + len1 - 1) : i \in 1..(Len(s2) - len1 + 1)} \cup
    {SubSeq(s2, i, Len(s2)) : i \in (Len(s2) - len1 + 2)..Len(s2)}

RECURSIVE BestScore(_, _, _)
BestScore(s1, ws, best) ==
    IF ws = {} THEN best
    ELSE LET w == CHOOSE x \in ws : TRUE
         IN  BestScore(s1, ws \ {w}, ScoreMax(best, ratio(s1, w)))

partial_ratio_impl(s1, s2) ==
    BestScore(s1, Windows(Len(s1), s2), [num |-> 0, den |-> 1])

partial_ratio(s1, s2) ==
    IF Len(s1) = 0 \/ Len(s2) = 0
    THEN [num |-> IF Len(s1) = Len(s2) THEN 100 ELSE 0, den |-> 1]
    ELSE IF Len(s1) < Len(s2) THEN partial_ratio_impl(s1, s2)
    ELSE IF Len(s1) > Len(s2) THEN partial_ratio_impl(s2, s1)
    ELSE ScoreMax(partial_ratio_impl(s1, s2), partial_ratio_impl(s2, s1))

(***************************************************************************)
(* str.split(sep)[0] and str.strip().                                      *)
(***************************************************************************)
FindSub(s, sep) ==
    LET I == {i \in 1..(Len(s) - Len(sep) + 1) :
                  SubSeq(s, i, i + Len(sep) - 1) = sep}
    IN  IF I = {} THEN 0 ELSE CHOOSE i \in I : \A j \in I : i <= j

SplitFirst(s, sep) ==
    LET k == FindSub(s, sep) IN IF k = 0 THEN s ELSE SubSeq(s, 1, k - 1)

RECURSIVE strip(_)
strip(s) ==
    IF s = <<>> THEN s
    ELSE IF Head(s) = " " THEN strip(Tail(s))
    ELSE IF s[Len(s)] = " " THEN strip(SubSeq(s, 1, Len(s) - 1))
    ELSE s

(***************************************************************************)
(* JSON / Python values: a string, null (None), or a field that is absent. *)
(***************************************************************************)
JStr(s) == [t |-> "str", v |-> s]
JNull == [t |-> "null", v |-> <<>>]
JAbsent == [t |-> "absent", v |-> <<>>]

\* dict.get(key, default)
Get(field, default) == IF field.t = "absent" THEN default ELSE field

\* a search that found nothing, or failed: Python's None
None == [source |-> "None", title |-> JNull, authors |-> <<>>]

(***************************************************************************)
(* The strings of the model.                                               *)
(***************************************************************************)
TitleBib == <<"A", "b", "c", "d", "e", "f", "g", "h", "i", "j">>
Title100 == <<"a", "b", "c", "d", "e", "f", "g", "h", "i", "j">>
Title90 == <<"a", "b", "c", "d", "e", "f", "g", "h", "i", "z">>
Title85 == <<"a", "b", "c", "d", "e", "f", "g", "h", "i", "z", "z">>
Title70 == <<"a", "b", "c", "d", "e", "f", "g", "X", "Y", "z">>
Title60 == <<"a", "b", "c", "d", "e", "f", "w", "x", "y", "z">>

NameFull == <<"X", " ", "A", "b", "c">>
Name80 == <<"a", "b", "x", "y", "z">>
NameOther == <<"x", "y", "z">>

AuthorForms ==
    << <<"A", "b", "c", ",", " ", "X", " ", "a", "n", "d", " ", "D", ",", " ", "Y">>,
       <<" ", "A", "b", "c", " ", "a", "n", "d", " ", "D", " ", "Y">>,
       <<"A", "b", "c">> >>

(***************************************************************************)
(* Citation keys and the bibliography entries they may have.               *)
(***************************************************************************)
Keys == 1..MaxKeys

BibEntryOf(k) ==
    [key |-> k, title |-> TitleBib,
     author |-> AuthorForms[((k - 1) % Len(AuthorForms)) + 1]]

(***************************************************************************)
(* What the DBLP endpoint may answer: an exception of requests.get or of   *)
(* resp.json(), a status code, and the hits of the result.  A hit has an   *)
(* "info" object (or not), with a title field and an "authors" field whose *)
(* "author" member is one object, one bare string or a list.               *)
(***************************************************************************)
DblpAuthor(shape, items) == [shape |-> shape, items |-> items]
DblpHit(has_info, title, authors) ==
    [has_info |-> has_info, title |-> title, authors |-> authors]
DblpResp(exc, code, hits) == [exc |-> exc, status_code |-> code, hits |-> hits]

DblpResponses ==
    { DblpResp(TRUE, 0, <<>>),
      DblpResp(FALSE, 500, <<>>),
      DblpResp(FALSE, 200, <<>>),
      DblpResp(FALSE, 200, <<DblpHit(FALSE, JAbsent, DblpAuthor("absent", <<>>))>>),
      DblpResp(FALSE, 200, <<DblpHit(TRUE, JStr(Title100), DblpAuthor("null", <<>>))>>),
      DblpResp(FALSE, 200, <<DblpHit(TRUE, JStr(Title100),
          DblpAuthor("list", <<[t |-> "dict", text |-> JAbsent]>>))>>),
      DblpResp(FALSE, 200, <<DblpHit(TRUE, JStr(Title100),
          DblpAuthor("dict", <<[t |-> "dict", text |-> JStr(NameFull)]>>))>>),
      DblpResp(FALSE, 200, <<DblpHit(TRUE, JStr(Title70),
          DblpAuthor("list", <<[t |-> "str", text |-> JStr(NameOther)],
                               [t |-> "dict", text |-> JStr(NameFull)]>>))>>),
      DblpResp(FALSE, 200, <<DblpHit(TRUE, JStr(Title90),
          DblpAuthor("str", <<[t |-> "str", text |-> JStr(Name80)]>>))>>),
      DblpResp(FALSE, 200, <<DblpHit(TRUE, JStr(Title60), DblpAuthor("absent", <<>>))>>),
      DblpResp(FALSE, 200, <<DblpHit(TRUE, JNull, DblpAuthor("absent", <<>>))>>) }

\* lines 49-53: one object, one string or a list, as a list of objects
dblp_authors_raw(field) ==
    IF field.shape = "str"
    THEN <<[t |-> "dict", text |-> field.items[1].text]>>
    ELSE field.items

search_dblp(resp) ==
    IF resp.exc THEN None
    ELSE IF resp.status_code # 200 THEN None
    ELSE IF resp.hits = <<>> THEN None
    ELSE LET hit == resp.hits[1]
             raw == dblp_authors_raw(hit.authors)
         IN  IF ~hit.has_info THEN None                       \* KeyError
             ELSE IF hit.authors.shape = "null" THEN None     \* AttributeError
             ELSE IF \E i \in 1..Len(raw) :
                        raw[i].t = "dict" /\ raw[i].text.t = "absent"
                  THEN None                                   \* KeyError
             ELSE [source |-> "DBLP",
                   title |-> Get(hit.title, JStr(<<>>)),
                   authors |-> [i \in 1..Len(raw) |-> raw[i].text]]

(***************************************************************************)
(* What the OpenAlex endpoint may answer: the top result has a             *)
(* display_name field and an "authorships" field, a list of objects whose  *)
(* "author" member is an object with a display_name, null, or absent.      *)
(***************************************************************************)
OaAuthorship(author, display_name) == [author |-> author, display_name |-> display_name]
OaWork(display_name, has_authorships, authorships) ==
    [display_name |-> display_name, has_authorships |-> has_authorships,
     authorships |-> authorships]
OaResp(exc, code, results) == [exc |-> exc, status_code |-> code, results |-> results]

OpenAlexResponses ==
    { OaResp(TRUE, 0, <<>>),
      OaResp(FALSE, 404, <<>>),
      OaResp(FALSE, 200, <<>>),
      OaResp(FALSE, 200, <<OaWork(JStr(Title100), TRUE,
          <<OaAuthorship("null", JAbsent)>>)>>),
      OaResp(FALSE, 200, <<OaWork(JStr(Title100), TRUE,
          <<OaAuthorship("obj", JStr(NameFull)), OaAuthorship("obj", JNull)>>)>>),
      OaResp(FALSE, 200, <<OaWork(JStr(Title85), TRUE,
          <<OaAuthorship("obj", JStr(NameFull))>>)>>),
      OaResp(FALSE, 200, <<OaWork(JStr(Title90), FALSE, <<>>)>>),
      OaResp(FALSE, 200, <<OaWork(JNull, FALSE, <<>>)>>),
      OaResp(FALSE, 200, <<OaWork(JStr(Title100), TRUE,
          <<OaAuthorship("obj", JNull), OaAuthorship("obj", JStr(NameFull))>>)>>) }

search_openalex(resp) ==
    IF resp.exc THEN None
    ELSE IF resp.status_code # 200 THEN None
    ELSE IF resp.results = <<>> THEN None
    ELSE LET top == resp.results[1]
             ships == IF top.has_authorships THEN top.authorships ELSE <<>>
         IN  IF \E i \in 1..Len(ships) : ships[i].author = "null"
             THEN None                                        \* AttributeError
             ELSE [source |-> "OpenAlex",
                   title |-> Get(top.display_name, JStr(<<>>)),
                   authors |-> [i \in 1..Len(ships) |->
                       IF ships[i].author = "absent" THEN JStr(<<>>)
                       ELSE Get(ships[i].display_name, JStr(<<>>))]]

(***************************************************************************)
(* The state of one process running main(), and the output directory,      *)
(* which outlives the process.                                             *)
(***************************************************************************)
VARIABLES
    pc,                     \* where main() is
    run_no,                 \* which run of the program this is
    tex_keys,               \* scan_tex_files(): the set of cited keys
    bib_data,               \* parse_bib_files(): key -> entry
    remaining,              \* keys the for loop has not reached yet
    cur,                    \* the loop's key (0: none)
    result,                 \* verify(): what DBLP returned
    match_result,           \* main(): what verify() returned
    all_citations_report,
    hallucination_report,
    calls,                  \* history: provider calls and sleeps of this run
    clock,                  \* time elapsed in this run
    files,                  \* output/: the two reports
    written                 \* history: the files this run has written

vars == <<pc, run_no, tex_keys, bib_data, remaining, cur, result, match_result,
          all_citations_report, hallucination_report, calls, clock, files, written>>

NoFile == [exists |-> FALSE, content |-> <<>>]
NoBib == [key |-> 0, title |-> <<>>, author |-> <<>>]
Statuses == {"Verified", "Missing in Bib", "Not Found", "Title Mismatch", "Author Mismatch"}

Init ==
    /\ pc = "scan"
    /\ run_no = 1
    /\ tex_keys = {}
    /\ bib_data = <<>>
    /\ remaining = {}
    /\ cur = 0
    /\ result = None
    /\ match_result = None
    /\ all_citations_report = <<>>
    /\ hallucination_report = <<>>
    /\ calls = <<>>
    /\ clock = 0
    /\ files = [all_citations |-> NoFile, hallucination_report |-> NoFile]
    /\ written = {}

(***************************************************************************)
(* main(), lines 199-207: the output directory is made, the manuscript is  *)
(* scanned, and a scan without keys ends the run.                          *)
(***************************************************************************)
main_scan ==
    /\ pc = "scan"
    /\ \E ks \in SUBSET Keys :
        /\ tex_keys' = ks
        /\ remaining' = ks
        /\ pc' = IF ks = {} THEN "exit" ELSE "parse"
    /\ UNCHANGED <<run_no, bib_data, cur, result, match_result, all_citations_report,
                   hallucination_report, calls, clock, files, written>>

\* main_parse without the return on an empty bibliography
main_parse_no_return ==
    /\ pc = "parse"
    /\ \E ks \in SUBSET Keys :
        /\ bib_data' = [k \in ks |-> BibEntryOf(k)]
        /\ pc' = "loop"
    /\ all_citations_report' = <<>>
    /\ hallucination_report' = <<>>
    /\ UNCHANGED <<run_no, tex_keys, remaining, cur, result, match_result,
                   calls, clock, files, written>>

(***************************************************************************)
(* main(), lines 210-220: the bibliography is parsed and merged, and an    *)
(* empty one ends the run.                                                 *)
(***************************************************************************)
main_parse ==
    /\ pc = "parse"
    /\ \E ks \in SUBSET Keys :
        /\ bib_data' = [k \in ks |-> BibEntryOf(k)]
        /\ pc' = IF ks = {} THEN "exit" ELSE "loop"
    /\ all_citations_report' = <<>>
    /\ hallucination_report' = <<>>
    /\ UNCHANGED <<run_no, tex_keys, remaining, cur, result, match_result,
                   calls, clock, files, written>>

citation_info(key, status, vr) ==
    [key |-> key, status |-> status,
     bib_metadata |-> IF key \in DOMAIN bib_data THEN bib_data[key] ELSE NoBib,
     verification_result |-> vr]

\* history record of a provider call or a sleep made for a key
call(key, op, res) == [key |-> key, op |-> op, at |-> clock, res |-> res]

\* loop_missing with the lookup started before the entry is looked for
loop_missing_lookup_first ==
    /\ pc = "loop"
    /\ \E key \in remaining :
        /\ key \notin DOMAIN bib_data
        /\ remaining' = remaining \ {key}
        /\ calls' = Append(calls, call(key, "dblp", None))
        /\ hallucination_report' = Append(hallucination_report,
               [key |-> key,
                reason |-> "Citation key found in TeX but missing in .bib files"])
        /\ all_citations_report' = Append(all_citations_report,
               citation_info(key, "Missing in Bib", None))
    /\ UNCHANGED <<pc, run_no, tex_keys, bib_data, cur, result, match_result,
                   clock, files, written>>

(***************************************************************************)
(* The for loop, lines 222-241: a key without an entry is reported and the *)
(* loop continues.  A Python set is iterated in an order the program does  *)
(* not choose.                                                             *)
(***************************************************************************)
loop_missing ==
    /\ pc = "loop"
    /\ \E key \in remaining :
        /\ key \notin DOMAIN bib_data
        /\ remaining' = remaining \ {key}
        /\ hallucination_report' = Append(hallucination_report,
               [key |-> key,
                reason |-> "Citation key found in TeX but missing in .bib files"])
        /\ all_citations_report' = Append(all_citations_report,
               citation_info(key, "Missing in Bib", None))
    /\ UNCHANGED <<pc, run_no, tex_keys, bib_data, cur, result, match_result,
                   calls, clock, files, written>>

(***************************************************************************)
(* Lines 222-247: a key with an entry goes to verifier.verify(title).      *)
(***************************************************************************)
loop_lookup ==
    /\ pc = "loop"
    /\ \E key \in remaining :
        /\ key \in DOMAIN bib_data
        /\ remaining' = remaining \ {key}
        /\ cur' = key
    /\ result' = None
    /\ match_result' = None
    /\ pc' = "dblp"
    /\ UNCHANGED <<run_no, tex_keys, bib_data, all_citations_report,
                   hallucination_report, calls, clock, files, written>>

loop_end ==
    /\ pc = "loop"
    /\ remaining = {}
    /\ pc' = "write"
    /\ UNCHANGED <<run_no, tex_keys, bib_data, remaining, cur, result, match_result,
                   all_citations_report, hallucination_report, calls, clock,
                   files, written>>

(***************************************************************************)
(* CitationVerifier.verify, lines 100-110.                                 *)
(***************************************************************************)
\* low_confidence with <= 70 in place of < 70
low_confidence_le(title, found_title) ==
    ~ScoreGreater(ratio(lower(title), lower(found_title)), PREFILTER_THRESHOLD)

\* line 104: fuzz.ratio(title.lower(), result["title"].lower()) < 70
low_confidence(title, found_title) ==
    ScoreLess(ratio(lower(title), lower(found_title)), PREFILTER_THRESHOLD)

\* lines 102-107; .lower() of a title that is not a string raises
verify_dblp ==
    /\ pc = "dblp"
    /\ \E resp \in DblpResponses :
        LET r == search_dblp(resp) IN
        /\ result' = r
        /\ calls' = Append(calls, call(cur, "dblp", r))
        /\ IF r = None
           THEN pc' = "sleep" /\ UNCHANGED match_result
           ELSE IF r.title.t # "str"
           THEN pc' = "crashed" /\ UNCHANGED match_result
           ELSE IF low_confidence(bib_data[cur].title, r.title.v)
           THEN pc' = "sleep" /\ UNCHANGED match_result
           ELSE pc' = "classify" /\ match_result' = r
    /\ UNCHANGED <<run_no, tex_keys, bib_data, remaining, cur, all_citations_report,
                   hallucination_report, clock, files, written>>

\* verify_sleep without the sleep
verify_sleep_skipped ==
    /\ pc = "sleep"
    /\ clock' = clock
    /\ calls' = Append(calls, call(cur, "sleep", None))
    /\ pc' = "openalex"
    /\ UNCHANGED <<run_no, tex_keys, bib_data, remaining, cur, result, match_result,
                   all_citations_report, hallucination_report, files, written>>

\* line 109: time.sleep(API_DELAY)
verify_sleep ==
    /\ pc = "sleep"
    /\ clock' = clock + API_DELAY
    /\ calls' = Append(calls, call(cur, "sleep", None))
    /\ pc' = "openalex"
    /\ UNCHANGED <<run_no, tex_keys, bib_data, remaining, cur, result, match_result,
                   all_citations_report, hallucination_report, files, written>>

\* verify_openalex falling back on the DBLP candidate it had set aside
verify_openalex_keep_dblp ==
    /\ pc = "openalex"
    /\ \E resp \in OpenAlexResponses :
        LET r == search_openalex(resp) IN
        /\ match_result' = IF r = None THEN result ELSE r
        /\ calls' = Append(calls, call(cur, "openalex", r))
    /\ pc' = "classify"
    /\ UNCHANGED <<run_no, tex_keys, bib_data, remaining, cur, result,
                   all_citations_report, hallucination_report, clock, files, written>>

\* line 110: return self._search_openalex(title)
verify_openalex ==
    /\ pc = "openalex"
    /\ \E resp \in OpenAlexResponses :
        LET r == search_openalex(resp) IN
        /\ match_result' = r
        /\ calls' = Append(calls, call(cur, "openalex", r))
    /\ pc' = "classify"
    /\ UNCHANGED <<run_no, tex_keys, bib_data, remaining, cur, result,
                   all_citations_report, hallucination_report, clock, files, written>>

(***************************************************************************)
(* The classification, lines 249-297.                                      *)
(***************************************************************************)
\* lines 278-280
bib_author_first(author) ==
    strip(SplitFirst(SplitFirst(author, <<",">>), <<" ", "a", "n", "d", " ">>))

\* lines 282-285: any() stops at the first match; .lower() of a name that
\* is not a string raises
RECURSIVE author_match(_, _)
author_match(first, found_authors) ==
    IF found_authors = <<>> THEN "no"
    ELSE IF Head(found_authors).t # "str" THEN "raise"
    ELSE IF ScoreGreater(partial_ratio(lower(first), lower(Head(found_authors).v)),
                         AUTHOR_THRESHOLD)
    THEN "yes"
    ELSE author_match(first, Tail(found_authors))

\* title_mismatch with <= 90 in place of < 90
title_mismatch_le(score) == ~ScoreGreater(score, SIMILARITY_THRESHOLD)

\* line 264
title_mismatch(score) == ScoreLess(score, SIMILARITY_THRESHOLD)

\* the status and the issue (none, or one) of a key, or the exception
classify_result(key, entry, mr) ==
    IF mr = None
    THEN [raise |-> FALSE, status |-> "Not Found",
          issue |-> <<[key |-> key, bib_title |-> entry.title,
                       reason |-> "Paper not found in DBLP or OpenAlex",
                       risk_level |-> "High"]>>]
    ELSE IF mr.title.t # "str"
    THEN [raise |-> TRUE, status |-> "Verified", issue |-> <<>>]
    ELSE LET score == ratio(lower(entry.title), lower(mr.title.v)) IN
         IF title_mismatch(score)
         THEN [raise |-> FALSE, status |-> "Title Mismatch",
               issue |-> <<[key |-> key, bib_title |-> entry.title,
                            found_title |-> mr.title.v,
                            similarity_score |-> score,
                            source |-> mr.source,
                            reason |-> "Title similarity below threshold",
                            risk_level |-> "Medium"]>>]
         ELSE LET am == author_match(bib_author_first(entry.author), mr.authors) IN
              IF am = "raise"
              THEN [raise |-> TRUE, status |-> "Verified", issue |-> <<>>]
              ELSE IF am = "no"
              THEN [raise |-> FALSE, status |-> "Author Mismatch",
                    issue |-> <<[key |-> key, bib_author |-> entry.author,
                                 found_authors |-> mr.authors,
                                 reason |-> "First author mismatch",
                                 risk_level |-> "Medium"]>>]
              ELSE [raise |-> FALSE, status |-> "Verified", issue |-> <<>>]

\* classify with the issue of an author mismatch not appended
classify_no_author_issue ==
    /\ pc = "classify"
    /\ LET c == classify_result(cur, bib_data[cur], match_result) IN
        IF c.raise
        THEN /\ pc' = "crashed"
             /\ UNCHANGED <<cur, all_citations_report, hallucination_report>>
        ELSE /\ pc' = "loop"
             /\ cur' = 0
             /\ hallucination_report' =
                    IF c.status = "Author Mismatch" THEN hallucination_report
                    ELSE hallucination_report \o c.issue
             /\ all_citations_report' = Append(all_citations_report,
                    citation_info(cur, c.status, match_result))
    /\ UNCHANGED <<run_no, tex_keys, bib_data, remaining, result, match_result,
                   calls, clock, files, written>>

\* classify leaving the iteration at "Not Found" as it does at "Missing in
\* Bib", with the outcome not appended
classify_not_found_continue ==
    /\ pc = "classify"
    /\ LET c == classify_result(cur, bib_data[cur], match_result) IN
        IF c.raise
        THEN /\ pc' = "crashed"
             /\ UNCHANGED <<cur, all_citations_report, hallucination_report>>
        ELSE /\ pc' = "loop"
             /\ cur' = 0
             /\ hallucination_report' = hallucination_report \o c.issue
             /\ all_citations_report' =
                    IF c.status = "Not Found" THEN all_citations_report
                    ELSE Append(all_citations_report,
                                citation_info(cur, c.status, match_result))
    /\ UNCHANGED <<run_no, tex_keys, bib_data, remaining, result, match_result,
                   calls, clock, files, written>>

\* lines 249-299: an exception leaves main() before anything is appended
classify ==
    /\ pc = "classify"
    /\ LET c == classify_result(cur, bib_data[cur], match_result) IN
        IF c.raise
        THEN /\ pc' = "crashed"
             /\ UNCHANGED <<cur, all_citations_report, hallucination_report>>
        ELSE /\ pc' = "loop"
             /\ cur' = 0
             /\ hallucination_report' = hallucination_report \o c.issue
             /\ all_citations_report' = Append(all_citations_report,
                    citation_info(cur, c.status, match_result))
    /\ UNCHANGED <<run_no, tex_keys, bib_data, remaining, result, match_result,
                   calls, clock, files, written>>

(***************************************************************************)
(* Lines 303-316: the full report is written, the issues report only when  *)
(* there are issues.                                                       *)
(***************************************************************************)
write_reports ==
    /\ pc = "write"
    /\ files' = [all_citations |->
                     [exists |-> TRUE, content |-> all_citations_report],
                 hallucination_report |->
                     IF hallucination_report # <<>>
                     THEN [exists |-> TRUE, content |-> hallucination_report]
                     ELSE files.hallucination_report]
    /\ written' = IF hallucination_report # <<>>
                  THEN {"all_citations", "hallucination_report"}
                  ELSE {"all_citations"}
    /\ pc' = "done"
    /\ UNCHANGED <<run_no, tex_keys, bib_data, remaining, cur, result, match_result,
                   all_citations_report, hallucination_report, calls, clock>>

(***************************************************************************)
(* The program is run again on the same output directory.                  *)
(***************************************************************************)
new_run ==
    /\ pc \in {"done", "exit", "crashed"}
    /\ run_no < MaxRuns
    /\ run_no' = run_no + 1
    /\ pc' = "scan"
    /\ tex_keys' = {}
    /\ bib_data' = <<>>
    /\ remaining' = {}
    /\ cur' = 0
    /\ result' = None
    /\ match_result' = None
    /\ all_citations_report' = <<>>
    /\ hallucination_report' = <<>>
    /\ calls' = <<>>
    /\ clock' = 0
    /\ written' = {}
    /\ UNCHANGED files

Next ==
    \/ main_scan
    \/ main_parse
    \/ loop_missing
    \/ loop_lookup
    \/ loop_end
    \/ verify_dblp
    \/ verify_sleep
    \/ verify_openalex
    \/ classify
    \/ write_reports

Spec == Init /\ [][Next]_vars

NextRuns == Next \/ new_run

SpecRuns == Init /\ [][NextRuns]_vars

(***************************************************************************)
(* What the properties below speak of.                                     *)
(***************************************************************************)
OutcomeIdx(k) ==
    {i \in 1..Len(all_citations_report) : all_citations_report[i].key = k}

IssueIdx(k) ==
    {i \in 1..Len(hallucination_report) : hallucination_report[i].key = k}

CallIdx(k, op) ==
    {j \in 1..Len(calls) : calls[j].key = k /\ calls[j].op = op}

CallsOf(k) == LET ForKey(c) == c.key = k IN SelectSeq(calls, ForKey)

TitleScore(k, cand) == ratio(lower(bib_data[k].title), lower(cand.title.v))

\* a candidate whose title is a string scoring < 70 against the key's title
LowScore(k, cand) ==
    /\ cand # None
    /\ cand.title.t = "str"
    /\ TitleScore(k, cand).num < PREFILTER_THRESHOLD * TitleScore(k, cand).den

\* a candidate whose title is a string scoring >= 70 against the key's title
HighScore(k, cand) ==
    /\ cand # None
    /\ cand.title.t = "str"
    /\ TitleScore(k, cand).num >= PREFILTER_THRESHOLD * TitleScore(k, cand).den

(***************************************************************************)
(* C1: a cited key that the bibliography lacks gets the status "Missing in *)
(* Bib" and an issue saying so, and no DBLP search, sleep or OpenAlex      *)
(* search is ever made for it, whatever the other keys of the run are.     *)
(***************************************************************************)
C1_MissingInBibNoLookup ==
    /\ \A k \in (tex_keys \ remaining) \ DOMAIN bib_data :
        /\ OutcomeIdx(k) # {}
        /\ \A i \in OutcomeIdx(k) :
            /\ all_citations_report[i].status = "Missing in Bib"
            /\ all_citations_report[i].verification_result = None
        /\ IssueIdx(k) # {}
    /\ \A j \in 1..Len(calls) : calls[j].key \in DOMAIN bib_data
    /\ cur # 0 => cur \in DOMAIN bib_data

C1_Witness ==
    /\ pc = "done"
    /\ calls # <<>>
    /\ \E i \in 1..Len(all_citations_report) :
        /\ all_citations_report[i].status = "Missing in Bib"
        /\ i > 1

(***************************************************************************)
(* C2: when DBLP returns a candidate whose title scores >= 70 (70          *)
(* included) against the input title, verify returns that candidate and    *)
(* OpenAlex is not queried in that verify call.                            *)
(***************************************************************************)
C2_HighConfidenceNoFallback ==
    \A j \in 1..Len(calls) :
        LET c == calls[j] IN
        (c.op = "dblp" /\ HighScore(c.key, c.res)) =>
            /\ CallIdx(c.key, "openalex") = {}
            /\ CallIdx(c.key, "sleep") = {}
            /\ cur = c.key => /\ pc \in {"classify", "crashed"}
                              /\ match_result = c.res
            /\ \A i \in OutcomeIdx(c.key) :
                   all_citations_report[i].verification_result = c.res

C2_Witness ==
    \E j \in 1..Len(calls) :
        LET c == calls[j] IN
        /\ c.op = "dblp"
        /\ HighScore(c.key, c.res)
        /\ TitleScore(c.key, c.res).num = PREFILTER_THRESHOLD * TitleScore(c.key, c.res).den
        /\ OutcomeIdx(c.key) # {}

(***************************************************************************)
(* C3, as claimed: a key with an entry is "Not Found" exactly when both    *)
(* providers yielded no candidate, so never when DBLP returned one.        *)
(***************************************************************************)
C3_NotFoundIffBothNone ==
    \A i \in 1..Len(all_citations_report) :
        LET o == all_citations_report[i] IN
        o.key \in DOMAIN bib_data =>
            (o.status = "Not Found" <=>
                 \A j \in CallIdx(o.key, "dblp") \cup CallIdx(o.key, "openalex") :
                     calls[j].res = None)

(***************************************************************************)
(* C3, amended: a key with an entry is "Not Found" (risk High) exactly     *)
(* when verify returned no candidate, that is when OpenAlex was queried    *)
(* and yielded none, after DBLP yielded none or a candidate scoring < 70,  *)
(* which verify drops.                                                     *)
(***************************************************************************)
C3_NotFoundIffVerifyNone ==
    \A i \in 1..Len(all_citations_report) :
        LET o == all_citations_report[i] IN
        o.key \in DOMAIN bib_data =>
            /\ o.status = "Not Found" <=>
                   /\ CallIdx(o.key, "openalex") # {}
                   /\ \A j \in CallIdx(o.key, "openalex") : calls[j].res = None
            /\ o.status = "Not Found" =>
                   /\ o.verification_result = None
                   /\ \A j \in CallIdx(o.key, "dblp") :
                          calls[j].res = None \/ LowScore(o.key, calls[j].res)
                   /\ \E n \in IssueIdx(o.key) :
                          /\ hallucination_report[n].reason =
                                 "Paper not found in DBLP or OpenAlex"
                          /\ hallucination_report[n].risk_level = "High"

C3_Witness ==
    \E i \in 1..Len(all_citations_report) :
        LET o == all_citations_report[i] IN
        /\ o.status = "Not Found"
        /\ \E j \in CallIdx(o.key, "dblp") : calls[j].res # None

(***************************************************************************)
(* C4: when verify returned a candidate, the status is "Title Mismatch"    *)
(* (risk Medium, with both titles, the score and the source) iff the title *)
(* score is < 90; otherwise "Author Mismatch" (risk Medium) iff no name of *)
(* the candidate scores > 80 against the first-author token, so at a best  *)
(* score of exactly 80 and with no authors at all; otherwise "Verified",   *)
(* with no issue recorded.                                                 *)
(***************************************************************************)
NamedAmong(first, authors) ==
    \E n \in 1..Len(authors) :
        /\ authors[n].t = "str"
        /\ LET p == partial_ratio(lower(first), lower(authors[n].v))
           IN  p.num > AUTHOR_THRESHOLD * p.den

C4_StatusByPriority ==
    \A i \in 1..Len(all_citations_report) :
        LET o == all_citations_report[i]
            vr == o.verification_result
        IN  vr # None =>
            /\ vr.title.t = "str"
            /\ LET sc == ratio(lower(o.bib_metadata.title), lower(vr.title.v))
                   below == sc.num < SIMILARITY_THRESHOLD * sc.den
                   named == NamedAmong(bib_author_first(o.bib_metadata.author),
                                       vr.authors)
               IN  /\ o.status \in {"Title Mismatch", "Author Mismatch", "Verified"}
                   /\ o.status = "Title Mismatch" <=> below
                   /\ o.status = "Author Mismatch" <=> (~below /\ ~named)
                   /\ o.status = "Verified" <=> (~below /\ named)
                   /\ o.status = "Verified" => IssueIdx(o.key) = {}
                   /\ o.status = "Title Mismatch" =>
                          /\ Cardinality(IssueIdx(o.key)) = 1
                          /\ \A n \in IssueIdx(o.key) :
                              LET h == hallucination_report[n] IN
                              /\ h.reason = "Title similarity below threshold"
                              /\ h.risk_level = "Medium"
                              /\ h.bib_title = o.bib_metadata.title
                              /\ h.found_title = vr.title.v
                              /\ h.similarity_score = sc
                              /\ h.source = vr.source
                   /\ o.status = "Author Mismatch" =>
                          /\ Cardinality(IssueIdx(o.key)) = 1
                          /\ \A n \in IssueIdx(o.key) :
                              LET h == hallucination_report[n] IN
                              /\ h.reason = "First author mismatch"
                              /\ h.risk_level = "Medium"

\* an author mismatch at a best score of exactly 80, after a title at
\* exactly 90, next to a title mismatch
C4_Witness ==
    /\ \E i \in 1..Len(all_citations_report) :
        LET o == all_citations_report[i] IN
        /\ o.status = "Author Mismatch"
        /\ o.verification_result.title.v = Title90
        /\ o.verification_result.authors = <<JStr(Name80)>>
    /\ \E i \in 1..Len(all_citations_report) :
        all_citations_report[i].status = "Title Mismatch"

(***************************************************************************)
(* C5: when a run over a non-empty key set and a non-empty bibliography    *)
(* completes, the outcome list holds exactly one outcome per scanned key,  *)
(* each with one of the five statuses; and the list only ever grows by an  *)
(* outcome appended at its end, the outcomes in it staying as they are.    *)
(***************************************************************************)
C5_OneOutcomePerKey ==
    pc = "done" =>
        /\ \A k \in tex_keys : Cardinality(OutcomeIdx(k)) = 1
        /\ Len(all_citations_report) = Cardinality(tex_keys)
        /\ \A i \in 1..Len(all_citations_report) :
            /\ all_citations_report[i].key \in tex_keys
            /\ all_citations_report[i].status \in Statuses

C5_AppendOnly ==
    /\ Len(all_citations_report') \in
           {Len(all_citations_report), Len(all_citations_report) + 1}
    /\ SubSeq(all_citations_report', 1, Len(all_citations_report)) =
           all_citations_report

C5_ExactlyOneOutcome == []C5_OneOutcomePerKey /\ [][C5_AppendOnly]_vars

C5_Witness ==
    /\ pc = "done"
    /\ Len(all_citations_report) >= 2
    /\ \E i \in 1..Len(all_citations_report) :
        all_citations_report[i].status = "Not Found"

(***************************************************************************)
(* C6: at every point of the loop and at its end, the issues list is the   *)
(* non-Verified part of the outcome list, one issue per such outcome, in   *)
(* the same order, and no issue for a Verified key.                        *)
(***************************************************************************)
ReasonOf(status) ==
    CASE status = "Missing in Bib" ->
             "Citation key found in TeX but missing in .bib files"
      [] status = "Not Found" -> "Paper not found in DBLP or OpenAlex"
      [] status = "Title Mismatch" -> "Title similarity below threshold"
      [] status = "Author Mismatch" -> "First author mismatch"
      [] OTHER -> "none"

RECURSIVE NonVerified(_)
NonVerified(report) ==
    IF report = <<>> THEN <<>>
    ELSE (IF Head(report).status # "Verified"
          THEN <<[key |-> Head(report).key, reason |-> ReasonOf(Head(report).status)]>>
          ELSE <<>>) \o NonVerified(Tail(report))

C6_IssuesAreTheNonVerified ==
    [n \in 1..Len(hallucination_report) |->
        [key |-> hallucination_report[n].key,
         reason |-> hallucination_report[n].reason]]
    = NonVerified(all_citations_report)

C6_Witness ==
    /\ pc = "done"
    /\ Len(all_citations_report) >= 2
    /\ all_citations_report[1].status = "Verified"
    /\ all_citations_report[2].status = "Author Mismatch"
    /\ Len(hallucination_report) = 1

(***************************************************************************)
(* C7, as claimed: whatever a provider answers, no exception leaves the    *)
(* processing of a key.                                                    *)
(***************************************************************************)
C7_NoExceptionEscapes == pc # "crashed"

(***************************************************************************)
(* C8: a scan without keys, or a bibliography without entries, ends the    *)
(* run before any verification: no provider call, no outcome, no issue,    *)
(* and neither report file written by the run.                             *)
(***************************************************************************)
EmptyInput ==
    \/ pc # "scan" /\ tex_keys = {}
    \/ pc \notin {"scan", "parse"} /\ DOMAIN bib_data = {}

C8_EmptyInputStops ==
    EmptyInput =>
        /\ pc = "exit"
        /\ calls = <<>>
        /\ cur = 0
        /\ all_citations_report = <<>>
        /\ hallucination_report = <<>>
        /\ written = {}
        /\ ~files.all_citations.exists
        /\ ~files.hallucination_report.exists

C8_Witness ==
    /\ pc = "exit"
    /\ tex_keys # {}
    /\ DOMAIN bib_data = {}

(***************************************************************************)
(* C9: for a key with an entry, DBLP is queried first and once; OpenAlex   *)
(* at most once, only after DBLP yielded none or a candidate scoring < 70, *)
(* and no sooner than API_DELAY after the DBLP call; verify then returns   *)
(* what OpenAlex yields.  So a key costs at most two provider calls.       *)
(***************************************************************************)
OpsOf(k) == [n \in 1..Len(CallsOf(k)) |-> CallsOf(k)[n].op]

C9_TwoStageProtocol ==
    \A k \in Keys :
        LET cs == CallsOf(k) IN
        /\ OpsOf(k) \in {<<>>, <<"dblp">>, <<"dblp", "sleep">>,
                         <<"dblp", "sleep", "openalex">>}
        /\ Cardinality(CallIdx(k, "dblp") \cup CallIdx(k, "openalex")) <= 2
        /\ Len(cs) >= 2 => cs[1].res = None \/ LowScore(k, cs[1].res)
        /\ Len(cs) = 3 => cs[3].at >= cs[1].at + API_DELAY
        /\ \A i \in OutcomeIdx(k) :
            k \in DOMAIN bib_data =>
                /\ Len(cs) \in {1, 3}
                /\ Len(cs) = 1 => /\ HighScore(k, cs[1].res)
                                  /\ all_citations_report[i].verification_result = cs[1].res
                /\ Len(cs) = 3 =>
                       all_citations_report[i].verification_result = cs[3].res

C9_Witness ==
    \E k \in Keys :
        /\ OutcomeIdx(k) # {}
        /\ Len(CallsOf(k)) = 3
        /\ CallsOf(k)[1].res # None
        /\ CallsOf(k)[3].res # None

(***************************************************************************)
(* C10, as claimed: after any sequence of completed runs on one output     *)
(* directory, the issues report is there iff the latest completed run had  *)
(* an issue, and then holds that run's issues; the full report holds the   *)
(* latest run's outcomes.                                                  *)
(***************************************************************************)
C10_IssuesReportIffIssues ==
    pc = "done" =>
        /\ files.all_citations.exists
        /\ files.all_citations.content = all_citations_report
        /\ files.hallucination_report.exists <=> hallucination_report # <<>>
        /\ files.hallucination_report.exists =>
               files.hallucination_report.content = hallucination_report

====
